---- MODULE Spec2Model ----
(***************************************************************************)
(* Model of page_template/script.js: the board table's filter controls,    *)
(* the DataTables row predicate, and the image preview dialog.             *)
(***************************************************************************)
EXTENDS Integers, Sequences, FiniteSets, TLC

\* ------------------------------------------------------------------ bounds
\* Longest dataset (json.data) the loader is given.
MaxBoards == 2
\* Most filter controls (checked boxes + non-blank range inputs) active at once.
MaxActive == 2
\* Most thumbnail activations (show.bs.modal events) in one run.
MaxOpens == 3

\* ------------------------------------------------------------ JS values
\* A JavaScript value of a record field: undefined, a string, a number or a
\* boolean.  One record shape for all so that values of different types can
\* be compared (unequal) the way === compares them.
Undef == [t |-> "undefined", s |-> "", n |-> 0]
Str(x) == [t |-> "string", s |-> x, n |-> 0]
Num(x) == [t |-> "number", s |-> "", n |-> x]
Bool(b) == [t |-> "boolean", s |-> "", n |-> IF b THEN 1 ELSE 0]

\* JS truthiness: undefined, "", 0 and false are falsy.
Truthy(v) ==
    CASE v.t = "undefined" -> FALSE
      [] v.t = "string" -> v.s # ""
      [] v.t = "number" -> v.n # 0
      [] v.t = "boolean" -> v.n = 1

Digits == <<"0", "1", "2", "3", "4", "5", "6", "7", "8", "9">>

\* Number.prototype.toString for a non-negative integer.
RECURSIVE NatToString(_)
NatToString(n) ==
    IF n < 10 THEN Digits[n + 1]
    ELSE NatToString(n \div 10) \o Digits[(n % 10) + 1]

\* String conversion as done by a template literal `${v}`.
JsToString(v) ==
    CASE v.t = "undefined" -> "undefined"
      [] v.t = "string" -> v.s
      [] v.t = "number" -> IF v.n < 0 THEN "-" \o NatToString(-v.n) ELSE NatToString(v.n)
      [] v.t = "boolean" -> IF v.n = 1 THEN "true" ELSE "false"

\* An absent array-valued field, and a present one holding the tags `items`.
NoTags == [present |-> FALSE, items |-> {}]
Tags(items) == [present |-> TRUE, items |-> items]

\* ------------------------------------------------------------ the dataset
\* The board records a dataset is drawn from (board_data.json is not part
\* of the script; the fields are the ones the script reads).
Boards ==
    { [name |-> "Pico", image |-> "pico.jpg",
       chip |-> Str("RP2040"), cores |-> Str("2"), usb |-> Str("Micro-B"),
       dimensions |-> Str("21 x 51"),
       connectivity |-> NoTags, connectors |-> Tags({"Debug"}),
       smd |-> Bool(TRUE), flash_bytes |-> 131072, ram_bytes |-> 270336],
      [name |-> "Pico W", image |-> "picow.jpg",
       chip |-> Str("RP2040"), cores |-> Num(2), usb |-> Str("Micro-B"),
       dimensions |-> Str("21 x 51"),
       connectivity |-> Tags({"WiFi", "Bluetooth"}), connectors |-> Tags({"Debug", "Qwiic"}),
       smd |-> Bool(TRUE), flash_bytes |-> 262144, ram_bytes |-> 262144],
      [name |-> "Tiny", image |-> "tiny.jpg",
       chip |-> Str("RP2350"), cores |-> Str("1"), usb |-> Str("USB-C"),
       dimensions |-> Undef,
       connectivity |-> Tags({"WiFi"}), connectors |-> Tags({}),
       smd |-> Bool(FALSE), flash_bytes |-> 524288, ram_bytes |-> 532480],
      [name |-> "", image |-> "bare.jpg",
       chip |-> Undef, cores |-> Num(1), usb |-> Undef,
       dimensions |-> Str(""),
       connectivity |-> Tags({}), connectors |-> NoTags,
       smd |-> Undef, flash_bytes |-> 0, ram_bytes |-> 262656] }

\* Every dataset the loader may be handed: 1..MaxBoards records, in any order.
Datasets == UNION { [1..n -> Boards] : n \in 1..MaxBoards }

\* --------------------------------------------------------------- state
VARIABLES
    loaded,      \* "init" before the ajax reply, "ok" after dataSrc returned, "failed" if it threw
    data,        \* the rows the table holds (json.data once dataSrc has returned it)
    options,     \* per filter key, the options that were rendered as checkboxes
    checked,     \* per filter key, the options whose checkbox is checked
    ranges,      \* the text of the inputs flashMin, flashMax, ramMin, ramMax
    visible,     \* indices of the rows the last draw kept
    modalShown,  \* the dialog is between show.bs.modal and hidden.bs.modal
    title,       \* .modal-title textContent
    imgSrc,      \* #modalImageDisplay src
    imgAlt,      \* #modalImageDisplay alt
    imgDisplay,  \* #modalImageDisplay style.display
    spinner,     \* .loading-spinner: "absent", or its style.display
    pending,     \* the Image objects still loading, with what their handlers captured
    opens,       \* number of show.bs.modal events so far (identifies each request)
    trigger,     \* row of event.relatedTarget at the latest show.bs.modal (0: none yet)
    lastEvent    \* the dialog handler that ran last

filterVars == <<loaded, data, options, checked, ranges, visible>>
modalVars == <<modalShown, title, imgSrc, imgAlt, imgDisplay, spinner, pending, opens, trigger, lastEvent>>
vars == <<loaded, data, options, checked, ranges, visible,
          modalShown, title, imgSrc, imgAlt, imgDisplay, spinner, pending, opens, trigger, lastEvent>>

\* ------------------------------------------------------- populateFilters
Keys == <<"chip", "cores", "usb", "dimensions", "connectivity", "connectors", "smd">>
KeySet == {Keys[k] : k \in 1..Len(Keys)}
SingleKeys == {"chip", "cores", "usb", "dimensions"}
MultiKeys == {"connectivity", "connectors"}
RangeIds == {"flashMin", "flashMax", "ramMin", "ramMax"}

\* filters[key].options after the data.forEach loop.
CollectOptions(d, key) ==
    CASE key \in SingleKeys ->
           {d[i][key] : i \in {j \in DOMAIN d : Truthy(d[j][key])}}
      [] key \in MultiKeys ->
           {Str(tag) : tag \in UNION {d[i][key].items : i \in {j \in DOMAIN d : d[j][key].present}}}
      [] key = "smd" -> {Str("Yes"), Str("No")}

\* Whether Array.sort with the comparator a.localeCompare(b, ...) throws: the
\* comparator is called only for two or more elements, and a.localeCompare is
\* not a function when a is a number.  For a mix of strings and numbers it
\* depends on which element the engine passes as a.
SortThrows(opts) ==
    IF Cardinality(opts) < 2 \/ \A o \in opts : o.t = "string" THEN {FALSE}
    ELSE IF \A o \in opts : o.t # "string" THEN {TRUE}
    ELSE {TRUE, FALSE}

\* The options that get a checkbox: the loop skips falsy options other than false.
Rendered(opts) == {o \in opts : Truthy(o) \/ o = Bool(FALSE)}

\* The checkbox's value attribute, which is what $(this).val() returns.
OptionVal(o) ==
    IF o.t = "boolean" THEN (IF o.n = 1 THEN "Yes" ELSE "No") ELSE JsToString(o)

NoOptions == [key \in KeySet |-> {}]
BlankRanges == [id \in RangeIds |-> <<>>]

\* ------------------------------------------------------------- parseInt
WhiteSpace == {" "}

DigitChars == {Digits[k] : k \in 1..Len(Digits)}
DigitValues == [c \in DigitChars |-> CHOOSE k \in 0..9 : Digits[k + 1] = c]
DigitVal(c) == DigitValues[c]
IsDigit(c) == c \in DigitChars

RECURSIVE SkipWhiteSpace(_)
SkipWhiteSpace(text) ==
    IF text # <<>> /\ Head(text) \in WhiteSpace THEN SkipWhiteSpace(Tail(text)) ELSE text

\* Value of the longest prefix of decimal digits, reading left to right.
RECURSIVE DigitsValue(_, _)
DigitsValue(text, acc) ==
    IF text # <<>> /\ IsDigit(Head(text))
    THEN DigitsValue(Tail(text), acc * 10 + DigitVal(Head(text)))
    ELSE acc

\* parseInt(text) in radix 10: leading white space, an optional sign, then
\* digits up to the first other character; NaN when there is no digit.
ParseInt(text) ==
    LET s == SkipWhiteSpace(text)
        neg == s # <<>> /\ Head(s) = "-"
        body == IF s # <<>> /\ Head(s) \in {"-", "+"} THEN Tail(s) ELSE s
    IN IF body = <<>> \/ ~IsDigit(Head(body))
       THEN [nan |-> TRUE, v |-> 0]
       ELSE [nan |-> FALSE, v |-> IF neg THEN -DigitsValue(body, 0) ELSE DigitsValue(body, 0)]

\* parseInt(...) || 0
MinKB(text) ==
    LET p == ParseInt(text) IN IF p.nan \/ p.v = 0 THEN 0 ELSE p.v

\* parseInt(...) || Infinity
MaxKB(text) ==
    LET p == ParseInt(text)
    IN IF p.nan \/ p.v = 0 THEN [inf |-> TRUE, v |-> 0] ELSE [inf |-> FALSE, v |-> p.v]

KB == 1024

\* !(kb >= minKB && kb <= maxKB) negated, with kb = bytes / 1024 (an exact
\* division in floating point, so the comparison is done on bytes).
InRange(bytes, lo, hi) ==
    /\ bytes >= lo * KB
    /\ hi.inf \/ bytes <= hi.v * KB

\* ------------------------------------------------- the search predicate
\* selectedOptions for one key: the values of the checked checkboxes.
SelectedOptions(chk, key) == {OptionVal(o) : o \in chk[key]}

\* Mutant: OR semantics, a row passing with any one of the checked tags.
MultiMatchAny(field, sel) ==
    field.present /\ \E opt \in sel : opt \in field.items

\* selectedOptions.some(opt => !row.connectivity.includes(opt)) negated,
\* together with the !row.connectivity test.
MultiMatch(field, sel) ==
    field.present /\ \A opt \in sel : opt \in field.items

\* Mutant: only an explicit false counts as 'No'.
SmdMatchAbsentYes(smd, sel, nChecked) ==
    LET strValue == IF smd = Bool(FALSE) THEN "No" ELSE "Yes"
    IN ~(nChecked = 1 /\ strValue \notin sel)

\* row.smd ? 'Yes' : 'No' against the checked options.
SmdMatch(smd, sel, nChecked) ==
    LET strValue == IF Truthy(smd) THEN "Yes" ELSE "No"
    IN ~(nChecked = 1 /\ strValue \notin sel)

\* selectedOptions.includes(row[key]): SameValueZero, so only a string equal
\* to a checked value is found.
SingleMatch(value, sel) ==
    value.t = "string" /\ value.s \in sel

\* Mutant: the selectedOptions.length > 0 test is missing.
KeyMatchUnguarded(row, chk, key) ==
    LET sel == SelectedOptions(chk, key)
    IN CASE key \in MultiKeys -> MultiMatch(row[key], sel)
         [] key = "smd" -> SmdMatch(row.smd, sel, Cardinality(chk[key]))
         [] OTHER -> SingleMatch(row[key], sel)

\* One pass of the forEach over the keys: the checks of one key.
KeyMatch(row, chk, key) ==
    LET sel == SelectedOptions(chk, key)
    IN IF Cardinality(chk[key]) > 0
       THEN CASE key \in MultiKeys -> MultiMatch(row[key], sel)
              [] key = "smd" -> SmdMatch(row.smd, sel, Cardinality(chk[key]))
              [] OTHER -> SingleMatch(row[key], sel)
       ELSE TRUE

\* The function pushed on $.fn.dataTable.ext.search, for a row of boardsTable
\* (the page's only table, so the nTable.id test never returns early): every
\* key's checks, then the flash and RAM range checks.
RowPredicate(row, chk, rng) ==
    /\ \A k \in 1..Len(Keys) : KeyMatch(row, chk, Keys[k])
    /\ InRange(row.flash_bytes, MinKB(rng["flashMin"]), MaxKB(rng["flashMax"]))
    /\ InRange(row.ram_bytes, MinKB(rng["ramMin"]), MaxKB(rng["ramMax"]))

\* table.draw(): the rows for which the predicate returns true.
Draw(d, chk, rng) == {i \in DOMAIN d : RowPredicate(d[i], chk, rng)}

\* ------------------------------------------------------------- actions
\* What a user can leave in a range input.
RangeTexts == {<<>>, <<"0">>, <<"2", "5", "6">>, <<"x">>}

\* Number of filter controls that are not in their initial state (what
\* MaxActive bounds).
Active(chk, rng) ==
    Cardinality(UNION {{<<k, o>> : o \in chk[k]} : k \in KeySet})
    + Cardinality({id \in RangeIds : rng[id] # <<>>})

DefaultTitle == "Board Image"
NoEvent == [type |-> "none", id |-> 0]

Init ==
    /\ loaded = "init"
    /\ data = <<>>
    /\ options = NoOptions
    /\ checked = NoOptions
    /\ ranges = BlankRanges
    /\ visible = {}
    /\ modalShown = FALSE
    /\ title = DefaultTitle
    /\ imgSrc = ""
    /\ imgAlt = ""
    /\ imgDisplay = "none"
    /\ spinner = "absent"
    /\ pending = {}
    /\ opens = 0
    /\ trigger = 0
    /\ lastEvent = NoEvent

\* The ajax reply: dataSrc calls populateFilters(json.data) and returns the
\* rows, which the table then draws.  at = 0: no sort throws; at = k: the
\* sort of Keys[k] throws, after the groups before it were rendered and
\* before any listener is attached, and the table gets no rows.
Load(d) ==
    /\ loaded = "init"
    /\ \E at \in 0..Len(Keys) :
          /\ \A j \in 1..Len(Keys) :
                (at = 0 \/ j < at) => FALSE \in SortThrows(CollectOptions(d, Keys[j]))
          /\ at > 0 => TRUE \in SortThrows(CollectOptions(d, Keys[at]))
          /\ options' = [key \in KeySet |->
                           IF \E j \in 1..Len(Keys) : Keys[j] = key /\ (at = 0 \/ j < at)
                           THEN Rendered(CollectOptions(d, key)) ELSE {}]
          /\ loaded' = IF at = 0 THEN "ok" ELSE "failed"
          /\ data' = IF at = 0 THEN d ELSE <<>>
          /\ visible' = IF at = 0 THEN Draw(d, checked, ranges) ELSE {}
    /\ UNCHANGED <<checked, ranges>>
    /\ UNCHANGED modalVars

\* Mutant: the checkbox has no change listener, the table is not redrawn.
ToggleCheckboxNoDraw(key, o) ==
    /\ loaded # "init"
    /\ o \in options[key]
    /\ checked' = [checked EXCEPT ![key] =
                      IF o \in @ THEN @ \ {o} ELSE @ \cup {o}]
    /\ Active(checked', ranges) <= MaxActive
    /\ UNCHANGED <<loaded, data, options, ranges, visible>>
    /\ UNCHANGED modalVars

\* A click on a generated checkbox; its change listener, when attached
\* (line 197 was reached), redraws the table.
ToggleCheckbox(key, o) ==
    /\ loaded # "init"
    /\ o \in options[key]
    /\ checked' = [checked EXCEPT ![key] =
                      IF o \in @ THEN @ \ {o} ELSE @ \cup {o}]
    /\ Active(checked', ranges) <= MaxActive
    /\ visible' = IF loaded = "ok" THEN Draw(data, checked', ranges) ELSE visible
    /\ UNCHANGED <<loaded, data, options, ranges>>
    /\ UNCHANGED modalVars

\* keyup/change on one of the four range inputs (they exist once
\* populateFilters has run to its end) that leaves another text in it; with
\* the text as it was, the redraw keeps the same rows.
SetRange(id, text) ==
    /\ loaded = "ok"
    /\ text # ranges[id]
    /\ ranges' = [ranges EXCEPT ![id] = text]
    /\ Active(checked, ranges') <= MaxActive
    /\ visible' = Draw(data, checked, ranges')
    /\ UNCHANGED <<loaded, data, options, checked>>
    /\ UNCHANGED modalVars

\* getAttribute('data-img-title') || 'Board Image' on the row's thumbnail,
\* whose attribute the column renderer filled with row.name.
Caption(row) == IF row.name # "" THEN row.name ELSE DefaultTitle

\* show.bs.modal, raised by a click on the thumbnail of row i while the
\* dialog is closed.
ShowModal(i) ==
    /\ ~modalShown
    /\ opens < MaxOpens
    /\ i \in visible
    /\ LET imgSrcAttr == data[i].image
           imgTitle == Caption(data[i])
       IN /\ title' = imgTitle
          /\ imgSrc' = ""
          /\ imgAlt' = "Loading..."
          /\ imgDisplay' = "none"
          /\ spinner' = "block"
          /\ opens' = opens + 1
          /\ trigger' = i
          /\ pending' = pending \cup {[id |-> opens + 1, src |-> imgSrcAttr, title |-> imgTitle]}
          /\ lastEvent' = [type |-> "show", id |-> opens + 1]
    /\ modalShown' = TRUE
    /\ UNCHANGED filterVars

\* Mutant: onload shows the image and leaves the spinner on.
ImgOnLoadKeepSpinner(l) ==
    /\ l \in pending
    /\ imgSrc' = l.src
    /\ imgAlt' = l.title
    /\ imgDisplay' = "block"
    /\ pending' = pending \ {l}
    /\ lastEvent' = [type |-> "load", id |-> l.id]
    /\ UNCHANGED <<modalShown, title, opens, trigger, spinner>>
    /\ UNCHANGED filterVars

\* fullImg.onload of the request l.
ImgOnLoad(l) ==
    /\ l \in pending
    /\ imgSrc' = l.src
    /\ imgAlt' = l.title
    /\ imgDisplay' = "block"
    /\ spinner' = "none"
    /\ pending' = pending \ {l}
    /\ lastEvent' = [type |-> "load", id |-> l.id]
    /\ UNCHANGED <<modalShown, title, opens, trigger>>
    /\ UNCHANGED filterVars

\* fullImg.onerror of the request l.
ImgOnError(l) ==
    /\ l \in pending
    /\ imgAlt' = "Failed to load image!"
    /\ imgDisplay' = "block"
    /\ spinner' = "none"
    /\ pending' = pending \ {l}
    /\ lastEvent' = [type |-> "error", id |-> l.id]
    /\ UNCHANGED <<modalShown, title, imgSrc, opens, trigger>>
    /\ UNCHANGED filterVars

\* hidden.bs.modal: the dialog has been dismissed.
HiddenModal ==
    /\ modalShown
    /\ modalShown' = FALSE
    /\ imgSrc' = ""
    /\ imgDisplay' = "none"
    /\ spinner' = IF spinner # "absent" THEN "none" ELSE spinner
    /\ title' = DefaultTitle
    /\ lastEvent' = [type |-> "hidden", id |-> opens]
    /\ UNCHANGED <<imgAlt, pending, opens, trigger>>
    /\ UNCHANGED filterVars

\* ------------------------------------------------------- specifications
\* The filters: load a dataset, then change controls.
Next ==
    \/ loaded = "init" /\ \E d \in Datasets : Load(d)
    \/ \E key \in KeySet : \E o \in options[key] : ToggleCheckbox(key, o)
    \/ \E id \in RangeIds : \E text \in RangeTexts : SetRange(id, text)

Spec == Init /\ [][Next]_vars

\* The preview dialog: load a dataset, then activate thumbnails, dismiss the
\* dialog and let image loads complete in any order.
NextModal ==
    \/ loaded = "init" /\ \E d \in Datasets : Load(d)
    \/ \E i \in visible : ShowModal(i)
    \/ \E l \in pending : ImgOnLoad(l)
    \/ \E l \in pending : ImgOnError(l)
    \/ HiddenModal

SpecModal == Init /\ [][NextModal]_vars

\* ------------------------------------------------------------ properties
NoneChecked(keys) == \A k \in keys : checked[k] = {}
RangesBlank == \A id \in RangeIds : ranges[id] = <<>>
Rows == DOMAIN data

\* The bounds as the range claim reads them: the entered integer, and 0 or
\* no upper bound only for a blank or unparseable text.
ClaimedLo(text) == LET p == ParseInt(text) IN IF p.nan THEN 0 ELSE p.v
ClaimedHi(text) ==
    LET p == ParseInt(text)
    IN IF p.nan THEN [inf |-> TRUE, v |-> 0] ELSE [inf |-> FALSE, v |-> p.v]
ClaimedInRange(bytes, minText, maxText) ==
    /\ bytes >= ClaimedLo(minText) * KB
    /\ ClaimedHi(maxText).inf \/ bytes <= ClaimedHi(maxText).v * KB

\* C1: with no checkbox checked, the rows kept are exactly those whose flash
\* and RAM sizes lie in [min, max] KB, min and max being the entered integers
\* (0 included), 0 and +infinity standing in only for blank or unparseable
\* text.
C1_RangeOfEnteredBounds ==
    (loaded = "ok" /\ NoneChecked(KeySet)) =>
        visible = {i \in Rows :
                     /\ ClaimedInRange(data[i].flash_bytes, ranges["flashMin"], ranges["flashMax"])
                     /\ ClaimedInRange(data[i].ram_bytes, ranges["ramMin"], ranges["ramMax"])}

\* C2: with only checkboxes of one single-valued attribute checked, the rows
\* kept are exactly those that have a value for it and whose value, as
\* rendered into the checkbox, is one of the checked values; the stored type
\* of the value makes no difference.
C2_SingleValueOfAnyType ==
    \A k \in SingleKeys :
        (loaded = "ok" /\ checked[k] # {} /\ NoneChecked(KeySet \ {k}) /\ RangesBlank) =>
            visible = {i \in Rows :
                         /\ data[i][k].t # "undefined"
                         /\ JsToString(data[i][k]) \in SelectedOptions(checked, k)}

\* C3: with only checkboxes of one multi-valued attribute checked, the rows
\* kept are exactly those whose tag list is present and holds the tag of
\* every checked checkbox.
C3_MultiValueAnd ==
    \A k \in MultiKeys :
        (loaded = "ok" /\ checked[k] # {} /\ NoneChecked(KeySet \ {k}) /\ RangesBlank) =>
            visible = {i \in Rows :
                         /\ data[i][k].present
                         /\ \A o \in checked[k] : o.s \in data[i][k].items}

C3_Witness ==
    /\ loaded = "ok" /\ NoneChecked(KeySet \ {"connectivity"}) /\ RangesBlank
    /\ Cardinality(checked["connectivity"]) = 2
    /\ visible # {}
    /\ \E j \in Rows \ visible :
          /\ data[j].connectivity.present
          /\ \E o \in checked["connectivity"] : o.s \in data[j].connectivity.items

\* C4: with only smd checkboxes checked, none or both keep every row; exactly
\* one keeps the rows whose flag (truthy Yes, falsy or absent No) is the
\* checked option.
C4_SmdFilter ==
    (loaded = "ok" /\ NoneChecked(KeySet \ {"smd"}) /\ RangesBlank) =>
        visible = IF Cardinality(checked["smd"]) = 1
                  THEN {i \in Rows :
                          Str(IF Truthy(data[i].smd) THEN "Yes" ELSE "No") \in checked["smd"]}
                  ELSE Rows

C4_Witness ==
    /\ loaded = "ok" /\ NoneChecked(KeySet \ {"smd"}) /\ RangesBlank
    /\ checked["smd"] = {Str("No")}
    /\ \E i \in visible : data[i].smd = Undef
    /\ \E j \in Rows \ visible : data[j].smd = Bool(TRUE)

\* C5: with no checkbox checked and the four range inputs blank, every row of
\* the loaded dataset is kept.
C5_Identity ==
    (loaded = "ok" /\ NoneChecked(KeySet) /\ RangesBlank) => visible = Rows

C5_Witness ==
    /\ loaded = "ok" /\ NoneChecked(KeySet) /\ RangesBlank
    /\ Len(data) = MaxBoards
    /\ \E i \in visible : data[i].chip = Undef /\ data[i].flash_bytes = 0
    /\ \E j \in visible : data[j].cores.t = "number"

\* C10: after every control change the rows kept are exactly the rows the
\* predicate accepts under the control state of that moment.
C10_VisibleTracksControls ==
    visible = {i \in Rows : RowPredicate(data[i], checked, ranges)}

C10_Witness ==
    /\ loaded = "ok"
    /\ \E k \in KeySet : checked[k] # {}
    /\ \E id \in RangeIds : ranges[id] # <<>>
    /\ visible # {} /\ visible # Rows

\* C6: while the dialog is closed after a dismissal, the image source is
\* empty, the image and the spinner are hidden and the title is the default.
C6_ClosedIsReset ==
    (~modalShown /\ opens > 0) =>
        /\ imgSrc = ""
        /\ imgDisplay = "none"
        /\ spinner = "none"
        /\ title = DefaultTitle

\* C7: when the load of the latest activation fails while the dialog is still
\* open, the fallback caption is shown, no image is shown (the element is
\* hidden or has no source) and the spinner is hidden.
C7_ErrorState ==
    (modalShown /\ lastEvent = [type |-> "error", id |-> opens]) =>
        /\ imgAlt = "Failed to load image!"
        /\ imgDisplay = "none" \/ imgSrc = ""
        /\ spinner = "none"

\* C8: right after an activation the dialog is loading: title set to the
\* thumbnail's caption, image source empty, image hidden, spinner shown; and
\* when that activation's load succeeds with the dialog still open, the
\* dialog displays the thumbnail's full image under its caption, spinner
\* hidden.
C8_LoadingThenDisplaying ==
    /\ lastEvent.type = "show" =>
          /\ modalShown
          /\ title = Caption(data[trigger])
          /\ imgSrc = "" /\ imgDisplay = "none" /\ spinner = "block"
          /\ [id |-> opens, src |-> data[trigger].image, title |-> Caption(data[trigger])] \in pending
    /\ (modalShown /\ lastEvent = [type |-> "load", id |-> opens]) =>
          /\ imgSrc = data[trigger].image
          /\ imgAlt = Caption(data[trigger])
          /\ title = Caption(data[trigger])
          /\ imgDisplay = "block" /\ spinner = "none"

C8_Witness ==
    /\ modalShown /\ lastEvent = [type |-> "load", id |-> opens]
    /\ opens > 1
    /\ data[trigger].name = ""
    /\ pending # {}

\* C9: whenever an image is displayed, its source is the full-image path of
\* the thumbnail whose caption is in the title (only the latest request's
\* completion writes to the dialog).
C9_ImageMatchesTitle ==
    (imgDisplay = "block" /\ imgSrc # "") =>
        \E i \in Rows : imgSrc = data[i].image /\ title = Caption(data[i])

====
